---- MODULE Spec2Model ----
(***************************************************************************)
(* Model of the Gutenberg API: the books and analysis routers              *)
(* (app/routers/books.py, app/routers/analysis.py), the two tables of      *)
(* app/models/database.py, the archive scraper (app/utils/gutenberg.py)    *)
(* and the LLM wrapper (app/utils/llm.py).                                 *)
(*                                                                         *)
(* Each HTTP request is a process that runs its handler in two steps: the  *)
(* queries together with the network calls that follow them (which touch   *)
(* no shared state), then the commit.  Requests of different workers       *)
(* interleave between the steps.  The store is the committed content of    *)
(* the two tables.  An optional value (a nullable column, a Python None)   *)
(* is a sequence of length 0 or 1.                                         *)
(***************************************************************************)
EXTENDS Integers, Sequences, FiniteSets, TLC

\* Number of HTTP requests (and ORM sessions) of one behaviour; each runs
\* once.
MaxReq == 3

Requests == 1..MaxReq

\* Catalog ids the clients ask for.
BookIds == {"84", "1342"}

\* analysis_type values written by the three endpoints.
Kinds == {"characters", "language", "plot"}

\* analysis_type values a request body may carry besides the kind of the
\* endpoint it is sent to: a string that names a kind, one that names none.
AnalysisTypes == {"plot", "summary"}

Ops == {"get_book", "list_books"} \cup Kinds

None == <<>>

Some(v) == <<v>>

-----------------------------------------------------------------------------
(* The archive (app/utils/gutenberg.py)                                    *)

\* A text (a Python str): its name, its length in characters and the bytes
\* each of its characters takes in UTF-8.
NoText == [name |-> "", chars |-> 0, width |-> 1]

SmallText == [name |-> "text A", chars |-> 400000, width |-> 1]

\* More than MAX_CONTENT_SIZE bytes and more than 7500000 characters.
LongText == [name |-> "text B", chars |-> 9000000, width |-> 1]

\* More than MAX_CONTENT_SIZE bytes in fewer than 7500000 characters.
WideText == [name |-> "text C", chars |-> 3000000, width |-> 3]

\* What one GET of a text URL can do: answer 200 with a text, answer with
\* another status, or raise requests.RequestException.  The texts the
\* handlers are run on are shorter than MAX_CONTENT_SIZE.
UrlResponses ==
    { [kind |-> "status", status |-> 200, text |-> SmallText],
      [kind |-> "status", status |-> 404, text |-> NoText],
      [kind |-> "exception", status |-> 0, text |-> NoText] }

\* The same with the texts that exceed MAX_CONTENT_SIZE.
UrlResponsesAll ==
    UrlResponses
    \cup { [kind |-> "status", status |-> 200, text |-> LongText],
           [kind |-> "status", status |-> 200, text |-> WideText] }

MAX_CONTENT_SIZE == 8 * 1024 * 1024

\* The length content[:7500000] cuts an oversize text to.
TruncatedLength == 7500000

\* len(content.encode('utf-8'))
Utf8Length(text) == text.chars * text.width

\* content[:7500000] when the UTF-8 encoding exceeds MAX_CONTENT_SIZE.
Truncate(text) ==
    IF Utf8Length(text) > MAX_CONTENT_SIZE
    THEN [text EXCEPT !.chars = IF @ > TruncatedLength THEN TruncatedLength ELSE @]
    ELSE text

\* The paths of the list `urls`, in its order, for catalog id <id>.
UrlPaths ==
    << "files/<id>/<id>-0.txt", "files/<id>/<id>.txt", "cache/epub/<id>/pg<id>.txt" >>

\* The i-th URL of the list for book_id.
Url(book_id, i) == [path |-> UrlPaths[i], book_id |-> book_id]

\* The three candidate URLs of fetch_book_content, in the order of the list.
UrlCount == 3

\* The loop with the `try` around it: a RequestException ends the loop.
RECURSIVE FirstOkUntilException(_, _)
FirstOkUntilException(responses, i) ==
    IF i > UrlCount THEN i
    ELSE IF responses[i].kind = "exception" THEN UrlCount + 1
    ELSE IF responses[i].status = 200 THEN i
    ELSE FirstOkUntilException(responses, i + 1)

\* Index of the first URL answering 200, or UrlCount + 1 when none does.
RECURSIVE FirstOk(_, _)
FirstOk(responses, i) ==
    IF i > UrlCount THEN i
    ELSE IF responses[i].kind = "status" /\ responses[i].status = 200 THEN i
    ELSE FirstOk(responses, i + 1)

\* fetch_book_content: the text of the first URL answering 200, cut when
\* oversize, else None.  responses[i] is the answer of the i-th URL.
fetch_book_content(responses) ==
    LET i == FirstOk(responses, 1)
    IN  IF i > UrlCount THEN None ELSE Some(Truncate(responses[i].text))

\* Number of text URLs fetch_book_content requested.
ContentRequests(responses) ==
    LET i == FirstOk(responses, 1)
    IN  IF i > UrlCount THEN UrlCount ELSE i

\* The metadata dictionaries the ebook page can yield: a key is present only
\* when its HTML element was found.
Metas ==
    { [title |-> "Frankenstein", language |-> "English", download_count |-> 100] }

\* What the GET of the ebook page can do.
MetaResponses ==
    { [kind |-> "status", status |-> 200, meta |-> m] : m \in Metas }
    \cup { [kind |-> "status", status |-> 404, meta |-> [title |-> ""]],
           [kind |-> "exception", status |-> 0, meta |-> [title |-> ""]] }

\* fetch_book_metadata: the scraped dictionary, None on a non-200 status or
\* a RequestException.
fetch_book_metadata(response) ==
    IF response.kind = "exception" THEN None
    ELSE IF response.status # 200 THEN None
    ELSE Some(response.meta)

\* dict.get(key): the value, or None when the key is absent.
Get(d, key) == IF key \in DOMAIN d THEN Some(d[key]) ELSE None

\* get_book_data with `and` in place of `or`: data is returned as soon as
\* one of the two fetches succeeded.
get_book_data_and(content, metadata) ==
    IF content = None /\ metadata = None THEN None
    ELSE Some([meta |-> IF metadata = None THEN [title |-> ""] ELSE metadata[1],
               content |-> content])

\* get_book_data: None when either fetch returned None, else the merged
\* dictionary (the metadata keys plus 'content').
get_book_data(content, metadata) ==
    IF content = None \/ metadata = None THEN None
    ELSE Some([meta |-> metadata[1], content |-> content])

-----------------------------------------------------------------------------
(* The LLM wrapper (app/utils/llm.py)                                      *)

\* An API call either raises or answers with a text.  A text is described
\* by what the two regular expressions of extract_json_from_response see in
\* it: blank or not, a fenced ```{...}``` block or not, a '{...}' span or
\* not, and whether the span they capture is well-formed JSON (and then
\* which object it denotes).
LlmReplies ==
    { [kind |-> "raise", blank |-> FALSE, fenced |-> FALSE, braces |-> FALSE,
       wellformed |-> FALSE, value |-> ""],
      [kind |-> "text", blank |-> TRUE, fenced |-> FALSE, braces |-> FALSE,
       wellformed |-> FALSE, value |-> ""],
      [kind |-> "text", blank |-> FALSE, fenced |-> FALSE, braces |-> FALSE,
       wellformed |-> FALSE, value |-> ""],
      [kind |-> "text", blank |-> FALSE, fenced |-> FALSE, braces |-> TRUE,
       wellformed |-> FALSE, value |-> ""],
      [kind |-> "text", blank |-> FALSE, fenced |-> TRUE, braces |-> TRUE,
       wellformed |-> TRUE, value |-> "object A"],
      [kind |-> "text", blank |-> FALSE, fenced |-> FALSE, braces |-> TRUE,
       wellformed |-> TRUE, value |-> "object B"] }

\* A string handed to json.loads: JSON text of an object, or other text.
JsonText(v) == [json |-> TRUE, value |-> v]

OtherText == [json |-> FALSE, value |-> ""]

\* extract_json_from_response: the captured span, or the content itself.
extract_json_from_response(reply) ==
    IF reply.fenced \/ reply.braces
    THEN IF reply.wellformed THEN JsonText(reply.value) ELSE OtherText
    ELSE OtherText

\* json.loads: the object, or None for JSONDecodeError.
json_loads(s) == IF s.json THEN Some(s.value) ELSE None

\* json.dumps
json_dumps(v) == JsonText(v)

\* The literal each wrapper returns when the call or the parsing failed.
Fallback(kind) ==
    CASE kind = "characters" -> "{characters: []}"
      [] kind = "language"   -> "{language: unknown, confidence: 0}"
      [] kind = "plot"       -> "{summary: Error generating summary, key_events: []}"

\* The literal returned for a blank reply.
EmptyFallback(kind) ==
    CASE kind = "characters" -> "{characters: []}"
      [] kind = "language"   -> "{language: unknown, confidence: 0}"
      [] kind = "plot"       -> "{summary: Could not generate summary, key_events: []}"

\* analyze_characters / detect_language / summarize_plot: always a JSON
\* string, the fallback literal on any failure.
analyze(kind, reply) ==
    IF reply.kind = "raise" THEN JsonText(Fallback(kind))
    ELSE IF reply.blank THEN JsonText(EmptyFallback(kind))
    ELSE LET parsed == json_loads(extract_json_from_response(reply))
         IN  IF parsed = None THEN JsonText(Fallback(kind))
             ELSE json_dumps(parsed[1])

\* The LLM call succeeded: the API answered and a JSON object was parsed
\* out of the reply.
LlmSucceeded(reply) ==
    /\ reply.kind = "text"
    /\ ~reply.blank
    /\ json_loads(extract_json_from_response(reply)) # None

-----------------------------------------------------------------------------
(* State                                                                   *)

VARIABLES
    books,          \* committed rows of table "books"
    analyses,       \* committed rows of table "analyses"
    book_seq,       \* last value of the books.id sequence
    analysis_seq,   \* last value of the analyses.id sequence
    clock,          \* datetime.utcnow, as a logical time
    req,            \* the requests: handler position, locals, response
    fetch           \* a call of fetch_book_content on its own

vars == <<books, analyses, book_seq, analysis_seq, clock, req, fetch>>

NoResponse == [status |-> 0, type |-> "none"]

\* A request that has not arrived yet.
IdleRequest ==
    [ op |-> "none", book_id |-> "", pc |-> "idle",
      analysis_type |-> "",     \* AnalysisRequest.analysis_type of the body
      book |-> None,            \* local `book`
      book_data |-> None,       \* local `book_data`
      content |-> None,         \* what fetch_book_content returned
      metadata |-> None,        \* what fetch_book_metadata returned
      archive_calls |-> 0,      \* HTTP requests sent to the archive
      llm_calls |-> 0,          \* calls of the LLM API
      llm_ok |-> FALSE,         \* the LLM call succeeded
      result_json |-> None,     \* local `result_json`
      cache_hit |-> FALSE,      \* the handler returned a stored row
      inserted |-> {},          \* rows this request committed
      resp |-> NoResponse ]

\* No call of fetch_book_content on its own.
NoFetch ==
    [ pc |-> "none", book_id |-> "", answers |-> <<>>, requested |-> <<>>,
      content |-> None ]

Init ==
    /\ books = {}
    /\ analyses = {}
    /\ book_seq = 0
    /\ analysis_seq = 0
    /\ clock = 0
    /\ req = [r \in Requests |-> IdleRequest]
    /\ fetch = NoFetch

HTTPError(code) == [status |-> code, type |-> "error"]

\* Request r arrives: requests are numbered in their order of arrival.
Arrives(r) ==
    /\ req[r].pc = "idle"
    /\ \A q \in Requests : q < r => req[q].pc # "idle"

\* The request record of an arrived request.
Arrived(op, book_id) == [IdleRequest EXCEPT !.op = op, !.book_id = book_id]

-----------------------------------------------------------------------------
(* Queries and constraints (app/models/database.py)                        *)

\* db.query(Book).filter(Book.book_id == book_id).first()
BookByCatalogId(book_id) ==
    IF \E b \in books : b.book_id = book_id
    THEN Some(CHOOSE b \in books : b.book_id = book_id)
    ELSE None

\* The query of a handler that does not look for a cached row.
CachedAnalysisSkip(id, kind) == None

\* db.query(Analysis).filter(book_id == id, analysis_type == kind).first()
CachedAnalysis(id, kind) ==
    IF \E a \in analyses : a.book_id = id /\ a.analysis_type = kind
    THEN Some(CHOOSE a \in analyses : a.book_id = id /\ a.analysis_type = kind)
    ELSE None

\* The books table without its unique index.
BookUniqueViolationOff(book_id) == FALSE

\* Column(String, unique=True) on books.book_id rejects the insert.
BookUniqueViolation(book_id) == \E b \in books : b.book_id = book_id

\* The analyses table without its unique constraint.
AnalysisUniqueViolationOff(id, kind) == FALSE

\* UniqueConstraint('book_id', 'analysis_type') rejects the insert.
AnalysisUniqueViolation(id, kind) ==
    \E a \in analyses : a.book_id = id /\ a.analysis_type = kind

\* ForeignKey("books.id") on analyses.book_id rejects the insert of a row
\* whose book is not in the table.
ForeignKeyViolation(id) == \A b \in books : b.id # id

-----------------------------------------------------------------------------
(* GET /api/books/{book_id} and GET /api/books/ (app/routers/books.py)     *)

\* The Book(...) object get_book builds from book_data.
NewBook(id, book_id, data, now) ==
    [ id |-> id, book_id |-> book_id,
      title |-> Get(data.meta, "title"),
      author |-> Get(data.meta, "author"),
      language |-> Get(data.meta, "language"),
      download_count |-> Get(data.meta, "download_count"),
      content |-> data.content,
      created_at |-> now ]

BookBody(b) == [status |-> 200, type |-> "book", book |-> b]

\* The outcome of `book_data = get_book_data(book_id)` in request record q:
\* 404 when nothing came back, else on to the commit.
Fetched(q, responses, page) ==
    LET content == fetch_book_content(responses)
        metadata == fetch_book_metadata(page)
        book_data == get_book_data(content, metadata)
        called == [q EXCEPT !.content = content,
                            !.metadata = metadata,
                            !.book_data = book_data,
                            !.archive_calls = ContentRequests(responses) + 1]
    IN  IF book_data = None
        THEN [called EXCEPT !.pc = "done", !.resp = HTTPError(404)]
        ELSE [called EXCEPT !.pc = "commit"]

\* get_book that asks the archive even when the row is stored.
get_book_refetch(r) ==
    /\ \E book_id \in BookIds :
         /\ Arrives(r)
         /\ \E responses \in [1..UrlCount -> UrlResponses], page \in MetaResponses :
              req' = [req EXCEPT ![r] =
                        Fetched(Arrived("get_book", book_id), responses, page)]
    /\ UNCHANGED <<books, analyses, book_seq, analysis_seq, clock, fetch>>

\* get_book up to the commit: the query, and for an absent row the two
\* fetches of get_book_data.
get_book(r) ==
    /\ \E book_id \in BookIds :
         /\ Arrives(r)
         /\ LET book == BookByCatalogId(book_id)
                q == Arrived("get_book", book_id)
            IN  IF book # None
                THEN req' = [req EXCEPT ![r] =
                               [q EXCEPT !.book = book, !.cache_hit = TRUE,
                                         !.pc = "done",
                                         !.resp = BookBody(book[1])]]
                ELSE \E responses \in [1..UrlCount -> UrlResponses],
                        page \in MetaResponses :
                       req' = [req EXCEPT ![r] = Fetched(q, responses, page)]
    /\ UNCHANGED <<books, analyses, book_seq, analysis_seq, clock, fetch>>

\* get_book whose insert replaces the row of the same catalog id.
get_book_commit_upsert(r) ==
    /\ req[r].op = "get_book"
    /\ req[r].pc = "commit"
    /\ LET id == book_seq + 1
           book == NewBook(id, req[r].book_id, req[r].book_data[1], clock)
       IN  /\ book_seq' = id
           /\ books' = {b \in books : b.book_id # req[r].book_id} \cup {book}
           /\ clock' = clock + 1
           /\ req' = [req EXCEPT ![r] =
                        [req[r] EXCEPT !.book = Some(book), !.inserted = {book},
                                       !.pc = "done", !.resp = BookBody(book)]]
    /\ UNCHANGED <<analyses, analysis_seq, fetch>>

\* get_book from db.add(book): db.commit(); db.refresh(book); return book.
\* The IntegrityError of a duplicate catalog id is not caught: the
\* framework answers 500.
get_book_commit(r) ==
    /\ req[r].op = "get_book"
    /\ req[r].pc = "commit"
    /\ LET id == book_seq + 1
           book == NewBook(id, req[r].book_id, req[r].book_data[1], clock)
       IN  /\ book_seq' = id
           /\ IF BookUniqueViolation(req[r].book_id)
              THEN /\ req' = [req EXCEPT ![r] =
                                [req[r] EXCEPT !.pc = "done",
                                               !.resp = HTTPError(500)]]
                   /\ UNCHANGED <<books, clock>>
              ELSE /\ books' = books \cup {book}
                   /\ clock' = clock + 1
                   /\ req' = [req EXCEPT ![r] =
                                [req[r] EXCEPT !.book = Some(book),
                                               !.inserted = {book},
                                               !.pc = "done",
                                               !.resp = BookBody(book)]]
    /\ UNCHANGED <<analyses, analysis_seq, fetch>>

\* The query with order_by(Book.created_at) in place of .desc().
RECURSIVE OrderByCreatedAsc(_)
OrderByCreatedAsc(rows) ==
    IF rows = {} THEN <<>>
    ELSE LET oldest == CHOOSE b \in rows :
                          \A c \in rows : b.created_at <= c.created_at
         IN  <<oldest>> \o OrderByCreatedAsc(rows \ {oldest})

\* order_by(Book.created_at.desc()).all()
RECURSIVE OrderByCreatedDesc(_)
OrderByCreatedDesc(rows) ==
    IF rows = {} THEN <<>>
    ELSE LET newest == CHOOSE b \in rows :
                          \A c \in rows : c.created_at <= b.created_at
         IN  <<newest>> \o OrderByCreatedDesc(rows \ {newest})

\* list_books
list_books(r) ==
    /\ Arrives(r)
    /\ req' = [req EXCEPT ![r] =
                 [Arrived("list_books", "") EXCEPT
                    !.pc = "done",
                    !.resp = [status |-> 200, type |-> "books",
                              books |-> OrderByCreatedDesc(books)]]]
    /\ UNCHANGED <<books, analyses, book_seq, analysis_seq, clock, fetch>>

-----------------------------------------------------------------------------
(* POST /api/analysis/{characters,language,plot} (app/routers/analysis.py) *)
(* The three handlers have the same text up to the kind they query and     *)
(* write and the wrapper they call.                                        *)

ResultBody(v) == [status |-> 200, type |-> "result", result |-> v]

\* An analysis handler without the `if not book` check: it calls the LLM
\* wrapper for the absent book and fails on `book.id`.
AnalysisHandlerNoBookCheck(r, kind) ==
    /\ \E book_id \in BookIds :
         /\ Arrives(r)
         /\ req' = [req EXCEPT ![r] =
                      [Arrived(kind, book_id) EXCEPT
                         !.book = BookByCatalogId(book_id),
                         !.llm_calls = 1,
                         !.pc = "done",
                         !.resp = HTTPError(500)]]
    /\ UNCHANGED <<books, analyses, book_seq, analysis_seq, clock, fetch>>

\* An analysis handler up to the commit: the query for the book (404 when
\* absent), the query for the cached row (returned when present), then the
\* LLM wrapper and json.loads.  A JSONDecodeError becomes
\* HTTPException(500), which the outer `except Exception` turns into
\* another HTTPException(500).
AnalysisRequestHandler(r, kind, types) ==
    /\ \E book_id \in BookIds, analysis_type \in types :
         /\ Arrives(r)
         /\ LET book == BookByCatalogId(book_id)
                q == [Arrived(kind, book_id) EXCEPT
                        !.analysis_type = analysis_type]
            IN  IF book = None
                THEN req' = [req EXCEPT ![r] =
                               [q EXCEPT !.pc = "done", !.resp = HTTPError(404)]]
                ELSE LET cached_analysis == CachedAnalysis(book[1].id, kind)
                     IN  IF cached_analysis # None
                         THEN req' = [req EXCEPT ![r] =
                                        [q EXCEPT !.book = book,
                                                  !.cache_hit = TRUE,
                                                  !.pc = "done",
                                                  !.resp = ResultBody(cached_analysis[1].result)]]
                         ELSE \E reply \in LlmReplies :
                                LET result == analyze(kind, reply)
                                    result_json == json_loads(result)
                                    called == [q EXCEPT !.book = book,
                                                        !.llm_calls = 1,
                                                        !.llm_ok = LlmSucceeded(reply)]
                                IN  req' = [req EXCEPT ![r] =
                                              IF result_json = None
                                              THEN [called EXCEPT !.pc = "done",
                                                                  !.resp = HTTPError(500)]
                                              ELSE [called EXCEPT !.result_json = result_json,
                                                                  !.pc = "commit"]]
    /\ UNCHANGED <<books, analyses, book_seq, analysis_seq, clock, fetch>>

\* An analysis handler called by a client that fills analysis_type with the
\* kind of the endpoint.
AnalysisHandler(r, kind) == AnalysisRequestHandler(r, kind, {kind})

\* The Analysis(...) object a handler builds.
NewAnalysis(id, book, kind, result_json, now) ==
    [ id |-> id, book_id |-> book.id, analysis_type |-> kind,
      result |-> result_json, created_at |-> now ]

\* The commit of a handler that answers with its own result when the insert
\* is rejected.
AnalysisCommitSwallow(r, kind) ==
    /\ req[r].op = kind
    /\ req[r].pc = "commit"
    /\ LET id == analysis_seq + 1
           new_analysis == NewAnalysis(id, req[r].book[1], kind,
                                       req[r].result_json[1], clock)
       IN  /\ analysis_seq' = id
           /\ IF \/ AnalysisUniqueViolation(req[r].book[1].id, kind)
                 \/ ForeignKeyViolation(req[r].book[1].id)
              THEN /\ req' = [req EXCEPT ![r] =
                                [req[r] EXCEPT !.pc = "done",
                                               !.resp = ResultBody(req[r].result_json[1])]]
                   /\ UNCHANGED <<analyses, clock>>
              ELSE /\ analyses' = analyses \cup {new_analysis}
                   /\ clock' = clock + 1
                   /\ req' = [req EXCEPT ![r] =
                                [req[r] EXCEPT !.inserted = {new_analysis},
                                               !.pc = "done",
                                               !.resp = ResultBody(req[r].result_json[1])]]
    /\ UNCHANGED <<books, book_seq, fetch>>

\* The commit of a handler that writes the analysis_type of the request
\* body.
AnalysisCommitRequestType(r, kind) ==
    /\ req[r].op = kind
    /\ req[r].pc = "commit"
    /\ LET id == analysis_seq + 1
           new_analysis == NewAnalysis(id, req[r].book[1], req[r].analysis_type,
                                       req[r].result_json[1], clock)
       IN  /\ analysis_seq' = id
           /\ IF \/ AnalysisUniqueViolation(req[r].book[1].id, req[r].analysis_type)
                 \/ ForeignKeyViolation(req[r].book[1].id)
              THEN /\ req' = [req EXCEPT ![r] =
                                [req[r] EXCEPT !.pc = "done",
                                               !.resp = HTTPError(500)]]
                   /\ UNCHANGED <<analyses, clock>>
              ELSE /\ analyses' = analyses \cup {new_analysis}
                   /\ clock' = clock + 1
                   /\ req' = [req EXCEPT ![r] =
                                [req[r] EXCEPT !.inserted = {new_analysis},
                                               !.pc = "done",
                                               !.resp = ResultBody(req[r].result_json[1])]]
    /\ UNCHANGED <<books, book_seq, fetch>>

\* An analysis handler from db.add(new_analysis): db.commit(); return
\* result_json.  The IntegrityError of a duplicate (book, kind), or of a
\* book that is no longer stored, is caught by `except Exception` and
\* answered with 500.
AnalysisCommit(r, kind) ==
    /\ req[r].op = kind
    /\ req[r].pc = "commit"
    /\ LET id == analysis_seq + 1
           new_analysis == NewAnalysis(id, req[r].book[1], kind,
                                       req[r].result_json[1], clock)
       IN  /\ analysis_seq' = id
           /\ IF \/ AnalysisUniqueViolation(req[r].book[1].id, kind)
                 \/ ForeignKeyViolation(req[r].book[1].id)
              THEN /\ req' = [req EXCEPT ![r] =
                                [req[r] EXCEPT !.pc = "done",
                                               !.resp = HTTPError(500)]]
                   /\ UNCHANGED <<analyses, clock>>
              ELSE /\ analyses' = analyses \cup {new_analysis}
                   /\ clock' = clock + 1
                   /\ req' = [req EXCEPT ![r] =
                                [req[r] EXCEPT !.inserted = {new_analysis},
                                               !.pc = "done",
                                               !.resp = ResultBody(req[r].result_json[1])]]
    /\ UNCHANGED <<books, book_seq, fetch>>

get_characters_analysis(r) == AnalysisHandler(r, "characters")

get_characters_analysis_commit(r) == AnalysisCommit(r, "characters")

get_language_analysis(r) == AnalysisHandler(r, "language")

get_language_analysis_commit(r) == AnalysisCommit(r, "language")

get_plot_analysis(r) == AnalysisHandler(r, "plot")

get_plot_analysis_commit(r) == AnalysisCommit(r, "plot")

-----------------------------------------------------------------------------
(* Deletion of a Book through the ORM (app/models/database.py).  No handler *)
(* deletes; the relationship Book.analyses says what session.delete(book)  *)
(* followed by commit does to the analyses of the book.  The deleting      *)
(* session takes the place of a request.                                   *)

\* The delete under a relationship without a cascade: the ORM sets the
\* book_id of the book's analyses to NULL (written 0) and keeps the rows.
delete_book_nullify(r) ==
    /\ Arrives(r)
    /\ \E b \in books :
         /\ books' = books \ {b}
         /\ analyses' = {IF a.book_id = b.id THEN [a EXCEPT !.book_id = 0] ELSE a :
                           a \in analyses}
         /\ req' = [req EXCEPT ![r] =
                      [Arrived("delete_book", b.book_id) EXCEPT
                         !.book = Some(b), !.pc = "done"]]
    /\ UNCHANGED <<book_seq, analysis_seq, clock, fetch>>

\* The delete under cascade="all, delete-orphan": the analyses of the book
\* are deleted with it, in one transaction.
delete_book(r) ==
    /\ Arrives(r)
    /\ \E b \in books :
         /\ books' = books \ {b}
         /\ analyses' = {a \in analyses : a.book_id # b.id}
         /\ req' = [req EXCEPT ![r] =
                      [Arrived("delete_book", b.book_id) EXCEPT
                         !.book = Some(b), !.pc = "done"]]
    /\ UNCHANGED <<book_seq, analysis_seq, clock, fetch>>

-----------------------------------------------------------------------------

Next ==
    \E r \in Requests :
        \/ get_book(r)
        \/ get_book_commit(r)
        \/ list_books(r)
        \/ get_characters_analysis(r)
        \/ get_characters_analysis_commit(r)
        \/ get_language_analysis(r)
        \/ get_language_analysis_commit(r)
        \/ get_plot_analysis(r)
        \/ get_plot_analysis_commit(r)

Spec == Init /\ [][Next]_vars

\* The handlers together with deletions through the ORM.
NextOrm ==
    \/ Next
    \/ \E r \in Requests : delete_book(r)

SpecOrm == Init /\ [][NextOrm]_vars

\* The analysis handlers called with any analysis_type in the body.
get_characters_analysis_any(r) ==
    AnalysisRequestHandler(r, "characters", AnalysisTypes)

get_language_analysis_any(r) ==
    AnalysisRequestHandler(r, "language", AnalysisTypes)

get_plot_analysis_any(r) ==
    AnalysisRequestHandler(r, "plot", AnalysisTypes)

\* The handlers, with clients that send any analysis_type.
NextAnyType ==
    \E r \in Requests :
        \/ get_book(r)
        \/ get_book_commit(r)
        \/ list_books(r)
        \/ get_characters_analysis_any(r)
        \/ get_characters_analysis_commit(r)
        \/ get_language_analysis_any(r)
        \/ get_language_analysis_commit(r)
        \/ get_plot_analysis_any(r)
        \/ get_plot_analysis_commit(r)

SpecAnyType == Init /\ [][NextAnyType]_vars

-----------------------------------------------------------------------------
(* fetch_book_content on its own (app/utils/gutenberg.py): the archive     *)
(* answers each of the three paths in some way, oversize texts included.   *)

UrlPathSet == {UrlPaths[i] : i \in 1..UrlCount}

\* fetch_book_content(book_id) is called and the archive's answers are set.
InitFetch ==
    /\ books = {}
    /\ analyses = {}
    /\ book_seq = 0
    /\ analysis_seq = 0
    /\ clock = 0
    /\ req = [r \in Requests |-> IdleRequest]
    /\ fetch \in { [ pc |-> "called", book_id |-> b, answers |-> a,
                     requested |-> <<>>, content |-> None ] :
                   b \in BookIds, a \in [UrlPathSet -> UrlResponsesAll] }

\* The call runs: the URLs it requests, in order, and what it returns.
fetch_book_content_call ==
    /\ fetch.pc = "called"
    /\ LET responses == [i \in 1..UrlCount |-> fetch.answers[UrlPaths[i]]]
       IN  fetch' = [fetch EXCEPT
                       !.pc = "returned",
                       !.requested = [i \in 1..ContentRequests(responses) |->
                                        Url(fetch.book_id, i)],
                       !.content = fetch_book_content(responses)]
    /\ UNCHANGED <<books, analyses, book_seq, analysis_seq, clock, req>>

NextFetch == fetch_book_content_call

SpecFetch == InitFetch /\ [][NextFetch]_vars

-----------------------------------------------------------------------------
(* Properties                                                              *)

\* The Analysis rows of the book with catalog id book_id and of kind.
RowsOfPair(book_id, kind) ==
    {a \in analyses : \E b \in books : b.book_id = book_id /\ a.book_id = b.id
                                       /\ a.analysis_type = kind}

\* C1: in every reachable state there is at most one Analysis row for each
\* (book, analysis kind) pair.
AtMostOneAnalysisPerKind ==
    \A a1, a2 \in analyses :
        (a1.book_id = a2.book_id /\ a1.analysis_type = a2.analysis_type)
            => a1 = a2

\* Two requests for the same pair both called the LLM and both ended, and
\* the pair has its one row.
TwoWritersOneAnalysis ==
    \E r1, r2 \in Requests :
        /\ r1 # r2
        /\ req[r1].op \in Kinds
        /\ req[r1].op = req[r2].op
        /\ req[r1].book_id = req[r2].book_id
        /\ req[r1].llm_calls = 1 /\ req[r2].llm_calls = 1
        /\ req[r1].pc = "done" /\ req[r2].pc = "done"
        /\ Cardinality(RowsOfPair(req[r1].book_id, req[r1].op)) = 1

\* C2: a request whose LLM call failed (the call raised, the reply was
\* blank, or no JSON could be parsed out of it) persists no Analysis row.
FailedLlmPersistsNothing ==
    \A r \in Requests :
        (req[r].op \in Kinds /\ req[r].llm_calls = 1 /\ ~req[r].llm_ok)
            => req[r].inserted = {}

\* C3: an analysis request arriving when its (book, kind) pair has a row
\* ends at once with exactly the stored result, without an LLM call and
\* without a change of the store; its response is the response of the
\* request that stored the row and of every earlier request served from
\* the row.
CachedAnalysisIsReturned ==
    [][\A r \in Requests :
         (/\ req[r].pc = "idle"
          /\ req'[r].op \in Kinds
          /\ RowsOfPair(req'[r].book_id, req'[r].op) # {})
         => /\ req'[r].pc = "done"
            /\ \E a \in RowsOfPair(req'[r].book_id, req'[r].op) :
                 req'[r].resp = [status |-> 200, type |-> "result",
                                 result |-> a.result]
            /\ req'[r].llm_calls = 0
            /\ analyses' = analyses
            /\ books' = books
            /\ \A q \in Requests :
                 (/\ q # r
                  /\ req[q].op = req'[r].op
                  /\ req[q].book_id = req'[r].book_id
                  /\ (req[q].cache_hit \/ req[q].inserted # {}))
                 => req[q].resp = req'[r].resp
      ]_vars

\* A request stored a result and a later request for the same pair was
\* served from the row.
AnalysisServedFromCache ==
    \E r, q \in Requests :
        /\ r # q
        /\ req[r].op \in Kinds
        /\ req[r].cache_hit
        /\ req[r].pc = "done"
        /\ req[q].op = req[r].op
        /\ req[q].book_id = req[r].book_id
        /\ req[q].inserted # {}

\* C4: an analysis request whose LLM call failed answers with status 500.
FailedAnalysisAnswers500 ==
    \A r \in Requests :
        (/\ req[r].op \in Kinds
         /\ req[r].pc = "done"
         /\ req[r].llm_calls = 1
         /\ ~req[r].llm_ok)
        => req[r].resp.status = 500

\* C5: in every reachable state there is at most one Book row for each
\* catalog id.
AtMostOneBookPerCatalogId ==
    \A b1, b2 \in books : b1.book_id = b2.book_id => b1 = b2

\* Two get_book requests for the same catalog id both fetched the book and
\* both ended, and the catalog id has its one row.
TwoFetchersOneBook ==
    \E r1, r2 \in Requests :
        /\ r1 # r2
        /\ req[r1].op = "get_book" /\ req[r2].op = "get_book"
        /\ req[r1].book_id = req[r2].book_id
        /\ req[r1].book_data # None /\ req[r2].book_data # None
        /\ req[r1].pc = "done" /\ req[r2].pc = "done"
        /\ Cardinality({b \in books : b.book_id = req[r1].book_id}) = 1

\* C6: a Book row, once stored, is in the store unchanged (all its columns)
\* after every step of every handler.
BookRowsAreImmutable ==
    [][\A b \in books : b \in books']_vars

\* With a book stored, a get_book that had fetched the same catalog id
\* attempted its insert and ended, and the row is still there.
BookOutlivesLaterRequests ==
    /\ books # {}
    /\ \E r \in Requests :
         /\ req[r].op = "get_book"
         /\ req[r].book_data # None
         /\ req[r].inserted = {}
         /\ req[r].pc = "done"
         /\ \E b \in books : b.book_id = req[r].book_id

\* C7: get_book for an absent catalog id goes on to create the row only
\* when the content fetch and the metadata fetch both returned something;
\* otherwise it ends with 404; the store is unchanged by that step, and a
\* Book row is only ever added by the commit of such a get_book.
BookCreatedOnlyByCompleteFetch ==
    [][/\ \A r \in Requests :
            (/\ req[r].pc = "idle"
             /\ req'[r].op = "get_book"
             /\ req'[r].archive_calls > 0)
            => /\ books' = books
               /\ IF req'[r].content = None \/ req'[r].metadata = None
                  THEN /\ req'[r].pc = "done"
                       /\ req'[r].resp.status = 404
                  ELSE req'[r].pc = "commit"
       /\ books' # books
            => \E r \in Requests :
                 /\ req[r].op = "get_book"
                 /\ req[r].pc = "commit"
                 /\ req[r].content # None
                 /\ req[r].metadata # None
                 /\ \E b \in books' :
                      /\ b \notin books
                      /\ b.book_id = req[r].book_id
                      /\ b.content = req[r].content
                      /\ books' = books \cup {b}
      ]_vars

\* One get_book ended with 404 after a failed fetch and left no row, another
\* stored its book.
FetchFailedAndFetchStored ==
    \E r, q \in Requests :
        /\ req[r].op = "get_book"
        /\ req[r].pc = "done"
        /\ req[r].archive_calls > 0
        /\ req[r].resp.status = 404
        /\ \A b \in books : b.book_id # req[r].book_id
        /\ req[q].op = "get_book"
        /\ req[q].inserted # {}

\* C8: every get_book request that found no row and fetched both content
\* and metadata ends with the book in the store and in its response.
FetchedBookIsSavedAndReturned ==
    \A r \in Requests :
        (/\ req[r].op = "get_book"
         /\ req[r].pc = "done"
         /\ req[r].content # None
         /\ req[r].metadata # None)
        => /\ req[r].resp.status = 200
           /\ req[r].resp.book \in books
           /\ req[r].resp.book.book_id = req[r].book_id

\* C9: get_book arriving when its catalog id has a row ends at once with
\* that row, sends no request to the archive and leaves the store unchanged.
StoredBookIsReturnedDirectly ==
    [][\A r \in Requests :
         (/\ req[r].pc = "idle"
          /\ req'[r].op = "get_book"
          /\ \E b \in books : b.book_id = req'[r].book_id)
         => /\ req'[r].pc = "done"
            /\ \E b \in books :
                 /\ b.book_id = req'[r].book_id
                 /\ req'[r].resp = [status |-> 200, type |-> "book", book |-> b]
            /\ req'[r].archive_calls = 0
            /\ books' = books
            /\ analyses' = analyses
      ]_vars

\* A get_book request was served from the stored row.
BookServedFromStore ==
    \E r \in Requests :
        /\ req[r].op = "get_book"
        /\ req[r].pc = "done"
        /\ req[r].cache_hit
        /\ req[r].resp.status = 200

\* C10: when an analysis request that missed the cache and called the LLM
\* commits after a row of its (book, kind) pair was committed, it ends
\* with status 500 and the stored rows stay as they were.
SecondAnalysisInsertIsRejected ==
    [][\A r \in Requests :
         (/\ req[r].op \in Kinds
          /\ req[r].pc = "commit"
          /\ req'[r].pc = "done"
          /\ RowsOfPair(req[r].book_id, req[r].op) # {})
         => /\ req'[r].resp.status = 500
            /\ analyses' = analyses
      ]_vars

\* Two requests for one pair called the LLM with different results; the
\* first to commit stored its result, the second got 500 and the row still
\* holds the first result.
LoserOfAnalysisRace ==
    \E r, q \in Requests :
        /\ r # q
        /\ req[r].op \in Kinds
        /\ req[q].op = req[r].op
        /\ req[q].book_id = req[r].book_id
        /\ req[r].llm_ok /\ req[q].llm_ok
        /\ req[r].result_json # req[q].result_json
        /\ req[r].pc = "done" /\ req[r].resp.status = 500
        /\ req[q].inserted # {}
        /\ \A a \in RowsOfPair(req[q].book_id, req[q].op) :
             Some(a.result) = req[q].result_json


\* C11: an analysis request (of any of the three kinds) arriving when its
\* catalog id has no Book row ends at once with 404, sends no request to
\* the archive, makes no LLM call and leaves the store unchanged.
AnalysisOfAbsentBookIs404 ==
    [][\A r \in Requests :
         (/\ req[r].pc = "idle"
          /\ req'[r].op \in Kinds
          /\ \A b \in books : b.book_id # req'[r].book_id)
         => /\ req'[r].pc = "done"
            /\ req'[r].resp = [status |-> 404, type |-> "error"]
            /\ req'[r].archive_calls = 0
            /\ req'[r].llm_calls = 0
            /\ books' = books
            /\ analyses' = analyses
      ]_vars

\* Each of the three analysis endpoints answered 404 for a catalog id that
\* has no row.
EachKindAnswered404 ==
    \A k \in Kinds :
        \E r \in Requests :
            /\ req[r].op = k
            /\ req[r].pc = "done"
            /\ req[r].resp.status = 404
            /\ \A b \in books : b.book_id # req[r].book_id


\* C12: after every step, each Analysis row references a Book row that is
\* in the store, and a step that deletes a Book leaves no Analysis row
\* referencing it.
ReferentialIntegrityWithCascade ==
    [][/\ \A a \in analyses' : \E b \in books' : a.book_id = b.id
       /\ \A b \in books :
            b \notin books' => \A a \in analyses' : a.book_id # b.id
      ]_vars

\* An analysis that a request committed is gone together with its book,
\* which a session deleted.
AnalysisDeletedWithBook ==
    \E r, d \in Requests :
        /\ req[r].op \in Kinds
        /\ req[r].inserted # {}
        /\ req[r].inserted \cap analyses = {}
        /\ req[d].op = "delete_book"
        /\ req[d].book = req[r].book
        /\ req[d].book[1] \notin books


\* C13: every Analysis row has one of the three kinds, was committed by a
\* request, and its kind is the kind of the endpoint that request was sent
\* to, whatever analysis_type the request body carries.
AnalysisKindIsTheEndpoint ==
    \A a \in analyses :
        /\ a.analysis_type \in {"characters", "language", "plot"}
        /\ \E r \in Requests : a \in req[r].inserted
        /\ \A r \in Requests :
             a \in req[r].inserted => a.analysis_type = req[r].op

\* A request whose body names another kind and a request whose body names
\* no kind each stored a row.
RowsStoredUnderForeignType ==
    /\ \E r \in Requests :
         /\ req[r].inserted \cap analyses # {}
         /\ req[r].analysis_type \in Kinds
         /\ req[r].analysis_type # req[r].op
    /\ \E r \in Requests :
         /\ req[r].inserted \cap analyses # {}
         /\ req[r].analysis_type \notin Kinds


Answered200(path) ==
    fetch.answers[path].kind = "status" /\ fetch.answers[path].status = 200

\* The three URLs of the catalog id of the call, in the order of the claim.
FirstUrl == [path |-> "files/<id>/<id>-0.txt", book_id |-> fetch.book_id]

SecondUrl == [path |-> "files/<id>/<id>.txt", book_id |-> fetch.book_id]

ThirdUrl == [path |-> "cache/epub/<id>/pg<id>.txt", book_id |-> fetch.book_id]

\* The text as the call hands it back: its first 7500000 characters when
\* its UTF-8 encoding is longer than 8 MB, else the whole text.
HandedBack(text) ==
    IF text.chars * text.width > 8388608 /\ text.chars > 7500000
    THEN [name |-> text.name, chars |-> 7500000, width |-> text.width]
    ELSE text

\* C15 as stated: the call requests files/<id>/<id>-0.txt, files/<id>/<id>.txt
\* and cache/epub/<id>/pg<id>.txt in this order, stops at the first that
\* answers 200 and returns its text, goes on after another status or a
\* request exception, and returns None exactly when all three fail.
FetchReturnsFirstText ==
    fetch.pc = "returned" =>
        IF Answered200(FirstUrl.path)
        THEN /\ fetch.requested = <<FirstUrl>>
             /\ fetch.content = <<fetch.answers[FirstUrl.path].text>>
        ELSE IF Answered200(SecondUrl.path)
        THEN /\ fetch.requested = <<FirstUrl, SecondUrl>>
             /\ fetch.content = <<fetch.answers[SecondUrl.path].text>>
        ELSE IF Answered200(ThirdUrl.path)
        THEN /\ fetch.requested = <<FirstUrl, SecondUrl, ThirdUrl>>
             /\ fetch.content = <<fetch.answers[ThirdUrl.path].text>>
        ELSE /\ fetch.requested = <<FirstUrl, SecondUrl, ThirdUrl>>
             /\ fetch.content = <<>>

\* C15 amended: the same, and the text returned is cut to its first 7500000
\* characters when its UTF-8 encoding is longer than 8 MB.
FetchReturnsFirstTextCut ==
    fetch.pc = "returned" =>
        IF Answered200(FirstUrl.path)
        THEN /\ fetch.requested = <<FirstUrl>>
             /\ fetch.content = <<HandedBack(fetch.answers[FirstUrl.path].text)>>
        ELSE IF Answered200(SecondUrl.path)
        THEN /\ fetch.requested = <<FirstUrl, SecondUrl>>
             /\ fetch.content = <<HandedBack(fetch.answers[SecondUrl.path].text)>>
        ELSE IF Answered200(ThirdUrl.path)
        THEN /\ fetch.requested = <<FirstUrl, SecondUrl, ThirdUrl>>
             /\ fetch.content = <<HandedBack(fetch.answers[ThirdUrl.path].text)>>
        ELSE /\ fetch.requested = <<FirstUrl, SecondUrl, ThirdUrl>>
             /\ fetch.content = <<>>

\* A call returned after an exception on the first URL, another status on
\* the second and an oversize text from the third, which it cut.
FetchFellThroughToThirdUrl ==
    /\ fetch.pc = "returned"
    /\ fetch.answers[FirstUrl.path].kind = "exception"
    /\ fetch.answers[SecondUrl.path].kind = "status"
    /\ fetch.answers[SecondUrl.path].status # 200
    /\ Answered200(ThirdUrl.path)
    /\ fetch.answers[ThirdUrl.path].text.chars > 7500000
    /\ Len(fetch.requested) = 3
    /\ fetch.content # <<>>
    /\ fetch.content[1].chars = 7500000

====
